---- MODULE Spec2Model ----
(***************************************************************************)
(* Model of springpython.remoting.xmlrpc.SSLServer: the accept loop's      *)
(* get_request / verify_request pair and the certificate field verifier    *)
(* verify_peer.                                                            *)
(*                                                                         *)
(* Python values are modelled as follows.                                  *)
(*   - a certificate (the value of sock.getpeercert()) is a record         *)
(*     [present, hasSubject, subject]; None and {} are both "not present". *)
(*     subject is a sequence of RDNs, an RDN a sequence of <<name, value>> *)
(*     attributes.                                                         *)
(*   - self.verify_fields is [none, items]: none for None, items the       *)
(*     (key, value) pairs of the dict in the dict's iteration order.       *)
(*   - an optional value (dict.get(k, None)) is <<>> for None, <<v>> else. *)
(*   - a "%"-formatted message is its template plus its argument cells.    *)
(***************************************************************************)
EXTENDS Naturals, Sequences, FiniteSets

VARIABLES
    verify_fields,            \* self.verify_fields
    cert_reqs,                \* self.cert_reqs
    do_handshake_on_connect,  \* self.do_handshake_on_connect
    ssl_checks_handshake,     \* the ssl module refuses getpeercert() before the handshake
    loop,                     \* the accept loop: "serving" or "crashed"
    accepted,                 \* number of connections taken from the listening socket
    conns,                    \* per connection: socket, TLS session, history, log lines
    v_cert,                   \* verifier harness: the certificate handed to verify_peer
    v_result,                 \* verifier harness: what verify_peer returned
    v_again,                  \* verifier harness: what a second call with the same cert returned
    i_source,                 \* MethodSecurityInterceptor.objectDefinitionSource
    i_context,                \* SecurityContextHolder.getContext().authentication
    i_last                    \* the last invoke(): its calls in order and its outcome

vars == <<verify_fields, cert_reqs, do_handshake_on_connect, ssl_checks_handshake,
          loop, accepted, conns, v_cert, v_result, v_again,
          i_source, i_context, i_last>>

config == <<verify_fields, cert_reqs, do_handshake_on_connect, ssl_checks_handshake>>
server_vars == <<loop, accepted, conns>>
verifier_vars == <<v_cert, v_result, v_again>>
intercept_vars == <<i_source, i_context, i_last>>

(***************************************************************************)
(* Bounds                                                                  *)
(***************************************************************************)
MaxConn == 2
MaxPolicyLen == 2
MaxRDN == 2

Fields == {"O", "CN"}
Values == {"", "Acme", "Other"}
Attrs == Fields \X Values
TrailingAttrs == {<<"O", "Acme">>}

ConnIds == 1..MaxConn

(***************************************************************************)
(* Python values                                                           *)
(***************************************************************************)
EmptyMap == [f \in {} |-> ""]

None == <<>>
Some(v) == <<v>>

\* variant: "if cert_value is None"
TruthyOptIsNotNone(o) == o /= None

\* truth value of an optional string: None and "" are false
TruthyOpt(o) == o /= None /\ o[1] /= ""

\* a message argument: a string, or a dict rendered by %s
StrArg(s) == [kind |-> "str", str |-> s, map |-> EmptyMap]
MapArg(d) == [kind |-> "dict", str |-> "", map |-> d]

NoCert == [present |-> FALSE, hasSubject |-> FALSE, subject |-> <<>>]
NoSubjectCert == [present |-> TRUE, hasSubject |-> FALSE, subject |-> <<>>]
Cert(subject) == [present |-> TRUE, hasSubject |-> TRUE, subject |-> subject]

NoExc == [type |-> "", text |-> ""]
NoReason == [fmt |-> "", args |-> <<>>]

SeqsUpTo(S, n) == UNION {[1..k -> S] : k \in 0..n}

RDNs == {<<>>} \cup {<<a>> : a \in Attrs}
        \cup {<<a, b>> : a \in Attrs, b \in TrailingAttrs}
Subjects == SeqsUpTo(RDNs, MaxRDN)
Certs == {NoCert, NoSubjectCert} \cup {Cert(s) : s \in Subjects}

IsPolicyItems(p) == \A i, j \in 1..Len(p) : i /= j => p[i][1] /= p[j][1]
PolicyItems == {p \in SeqsUpTo(Attrs, MaxPolicyLen) : IsPolicyItems(p)}
Policies == {[none |-> TRUE, items |-> <<>>]}
            \cup {[none |-> FALSE, items |-> p] : p \in PolicyItems}

\* variant: "if self.verify_fields is not None"
TruthyIsNotNone(vf) == ~vf.none

\* "if self.verify_fields": None and {} are false
Truthy(vf) == ~vf.none /\ vf.items /= <<>>

(***************************************************************************)
(* verify_peer                                                             *)
(***************************************************************************)
\* variant: the first occurrence of a field name wins
RECURSIVE SubjectDictFirstWins(_)
SubjectDictFirstWins(subject) ==
    IF subject = <<>> THEN EmptyMap
    ELSE LET d == SubjectDictFirstWins(Tail(subject))
             k == subject[1][1][1]
             v == subject[1][1][2]
         IN [f \in DOMAIN d \cup {k} |-> IF f = k THEN v ELSE d[f]]

\* dict(elem[0] for elem in subject); elem[0] of an empty RDN raises IndexError
RECURSIVE SubjectDict(_)
SubjectDict(subject) ==
    IF subject = <<>> THEN EmptyMap
    ELSE LET n == Len(subject)
             d == SubjectDict(SubSeq(subject, 1, n - 1))
             k == subject[n][1][1]
             v == subject[n][1][2]
         IN [f \in DOMAIN d \cup {k} |-> IF f = k THEN v ELSE d[f]]

SubjectRaises(subject) == \E i \in 1..Len(subject) : subject[i] = <<>>

\* subject.get(verify_field, None)
DictGet(d, k) == IF k \in DOMAIN d THEN Some(d[k]) ELSE None

Raise(type, text) ==
    [raises |-> TRUE, exc |-> [type |-> type, text |-> text],
     allow |-> FALSE, reason |-> NoReason]
Return(allow, reason) ==
    [raises |-> FALSE, exc |-> NoExc, allow |-> allow, reason |-> reason]

\* variant: the reason leaves out the subject fields received
MissingReasonFieldOnly(verify_field, subject) ==
    [fmt |-> "Peer didn't send the '%s' field, subject fields received '%s'",
     args |-> <<StrArg(verify_field)>>]

MissingReason(verify_field, subject) ==
    [fmt |-> "Peer didn't send the '%s' field, subject fields received '%s'",
     args |-> <<StrArg(verify_field), MapArg(subject)>>]

MismatchReason(verify_field, expected_value, subject) ==
    [fmt |-> "Expected the subject field '%s' to have value '%s' instead of '%s'",
     args |-> <<StrArg(verify_field), StrArg(expected_value), MapArg(subject)>>]

\* the for loop over self.verify_fields, from item i on
RECURSIVE CheckFields(_, _, _)
CheckFields(items, subject, i) ==
    IF i > Len(items) THEN Return(TRUE, NoReason)
    ELSE LET verify_field == items[i][1]
             expected_value == items[i][2]
             cert_value == DictGet(subject, verify_field)
         IN IF ~TruthyOpt(cert_value)
            THEN Return(FALSE, MissingReason(verify_field, subject))
            ELSE IF expected_value /= cert_value[1]
            THEN Return(FALSE, MismatchReason(verify_field, expected_value, subject))
            ELSE CheckFields(items, subject, i + 1)

verify_peer(cert) ==
    IF ~cert.hasSubject \/ cert.subject = <<>>
    THEN Raise("VerificationException",
               "Peer certificate doesn't have the 'subject' field")
    ELSE IF SubjectRaises(cert.subject)
    THEN Raise("IndexError", "tuple index out of range")
    ELSE CheckFields(verify_fields.items, SubjectDict(cert.subject), 1)

(***************************************************************************)
(* MethodSecurityInterceptor (springpython.security.intercept)             *)
(***************************************************************************)
\* objectDefinitionSource as __init__ leaves it
UnsetSource == [set |-> FALSE, rules |-> <<>>]

NoEnv == [authenticate |-> "ok", concat_ok |-> TRUE, decide |-> "ok",
          proceed |-> "ok", value |-> ""]

NoInvocation == [method |-> <<>>, env |-> NoEnv, entry_context |-> None,
                 attr |-> None, compiled |-> 0,
                 events |-> <<>>, raised |-> FALSE, exc |-> "", results |-> None,
                 token |-> None, after_token |-> None, after_results |-> None]

\* the interceptor is constructed and not used
InterceptorIdle ==
    /\ i_source = UnsetSource
    /\ i_context = None
    /\ i_last = NoInvocation

(***************************************************************************)
(* Verifier harness: verify_peer applied to one certificate                *)
(***************************************************************************)
NotCalled == [called |-> FALSE, result |-> Return(FALSE, NoReason)]

NoConn == [st |-> "none", peer_cert |-> NoCert, tls_ok |-> FALSE,
           handshake_done |-> FALSE, sock_open |-> FALSE,
           events |-> <<>>, log |-> <<>>]

VerifierInit ==
    /\ verify_fields \in Policies
    /\ cert_reqs = "CERT_OPTIONAL"
    /\ do_handshake_on_connect = TRUE
    /\ ssl_checks_handshake = FALSE
    /\ loop = "serving"
    /\ accepted = 0
    /\ conns = [c \in ConnIds |-> NoConn]
    /\ v_cert \in Certs
    /\ v_result = NotCalled
    /\ v_again = NotCalled
    /\ InterceptorIdle

\* variant: the loop consumes the policy entry it examines
CallVerifyPeerConsumes ==
    /\ ~v_result.called
    /\ v_result' = [called |-> TRUE, result |-> verify_peer(v_cert)]
    /\ verify_fields' = [verify_fields EXCEPT
            !.items = IF @ = <<>> THEN @ ELSE Tail(@)]
    /\ UNCHANGED <<cert_reqs, do_handshake_on_connect, ssl_checks_handshake,
                   server_vars, v_cert, v_again, intercept_vars>>

\* verify_peer called on v_cert. Its debug line (logger.debug) goes to the
\* logger only and is not part of the state.
CallVerifyPeer ==
    /\ ~v_result.called
    /\ v_result' = [called |-> TRUE, result |-> verify_peer(v_cert)]
    /\ UNCHANGED <<config, server_vars, v_cert, v_again, intercept_vars>>

\* verify_peer called once more with the same certificate
CallVerifyPeerAgain ==
    /\ v_result.called
    /\ ~v_again.called
    /\ v_again' = [called |-> TRUE, result |-> verify_peer(v_cert)]
    /\ UNCHANGED <<config, server_vars, v_cert, v_result, intercept_vars>>

VerifierNext == CallVerifyPeer \/ CallVerifyPeerAgain

VerifierSpec == VerifierInit /\ [][VerifierNext]_vars

(***************************************************************************)
(* The server: get_request, verify_request and the dispatch that follows   *)
(***************************************************************************)
\* the policies and peers the server runs are taken from
ServerPolicies ==
    {[none |-> TRUE, items |-> <<>>],
     [none |-> FALSE, items |-> <<>>],
     [none |-> FALSE, items |-> << <<"O", "Acme">> >>],
     [none |-> FALSE, items |-> << <<"CN", "Other">>, <<"O", "Acme">> >>]}

PeerCerts ==
    {NoCert, NoSubjectCert,
     Cert(<< <<>> >>),
     Cert(<< << <<"O", "Acme">> >> >>),
     Cert(<< << <<"O", "Other">> >> >>),
     Cert(<< << <<"CN", "Other">> >> >>),
     Cert(<< << <<"CN", "Other">> >>, << <<"O", "Acme">> >> >>)}

CertReqs == {"CERT_NONE", "CERT_OPTIONAL", "CERT_REQUIRED"}

\* the peer address of connection c
from_addr(c) == c

\* ssl.wrap_socket's handshake: the TLS layer accepts the peer, and under
\* CERT_REQUIRED the peer must have presented a certificate
HandshakeSucceeds(s) ==
    s.tls_ok /\ (cert_reqs = "CERT_REQUIRED" => s.peer_cert.present)

\* sock.getpeercert()
getpeercert(s) ==
    IF ~s.handshake_done
    THEN IF ssl_checks_handshake
         THEN [raises |-> TRUE, exc |-> [type |-> "ValueError", text |-> "handshake not done yet"],
               cert |-> NoCert]
         ELSE [raises |-> FALSE, exc |-> NoExc, cert |-> NoCert]
    ELSE [raises |-> FALSE, exc |-> NoExc,
          cert |-> IF cert_reqs = "CERT_NONE" THEN NoCert ELSE s.peer_cert]

NoCertificateException ==
    [type |-> "VerificationException",
     text |-> "Couldn't verify fields, peer didn't send the certificate"]

\* self.logger.error(reason)
ReasonLine(reason) ==
    [fmt |-> "%s", reason |-> reason, exc |-> NoExc, cert |-> NoCert, from_addr |-> None]

\* self.logger.error("Verification error='%s', cert='%s', from_addr='%s'" % ...)
ErrorLine(exc, cert, addr) ==
    [fmt |-> "Verification error='%s', cert='%s', from_addr='%s'",
     reason |-> NoReason, exc |-> exc, cert |-> cert, from_addr |-> Some(addr)]

ReturnTrue(events) ==
    [ret |-> "True", exc |-> NoExc, close |-> FALSE, log |-> <<>>,
     events |-> events \o <<"return_true">>]

\* the branch "if not allow_peer"
RejectPeer(reason, events) ==
    [ret |-> "False", exc |-> NoExc, close |-> TRUE, log |-> <<ReasonLine(reason)>>,
     events |-> events \o <<"log", "close", "return_false">>]

\* variant: the except clause lets the request through
ExceptClauseAccepts(s, addr, exc, events) == ReturnTrue(events \o <<"except">>)

\* the "except Exception, e" clause; it calls sock.getpeercert() again
ExceptClause(s, addr, exc, events) ==
    LET again == getpeercert(s)
    IN IF again.raises
       THEN [ret |-> "raise", exc |-> again.exc, close |-> FALSE, log |-> <<>>,
             events |-> events \o <<"except", "getpeercert", "raise">>]
       ELSE [ret |-> "False", exc |-> NoExc, close |-> TRUE,
             log |-> <<ErrorLine(exc, again.cert, addr)>>,
             events |-> events \o <<"except", "getpeercert", "log", "close", "return_false">>]

\* variant: the certificate is handed to verify_peer without the "not cert" test
verify_request_unchecked(s, addr) ==
    IF ~Truthy(verify_fields) THEN ReturnTrue(<<"verify_request">>)
    ELSE LET got == getpeercert(s)
             ev2 == <<"verify_request", "getpeercert", "verify_peer">>
             r == verify_peer(got.cert)
         IN IF got.raises THEN ExceptClause(s, addr, got.exc, <<"verify_request", "getpeercert">>)
            ELSE IF r.raises THEN ExceptClause(s, addr, r.exc, ev2)
            ELSE IF ~r.allow THEN RejectPeer(r.reason, ev2)
            ELSE ReturnTrue(ev2)

verify_request(s, addr) ==
    IF ~Truthy(verify_fields) THEN ReturnTrue(<<"verify_request">>)
    ELSE LET got == getpeercert(s)
             ev1 == <<"verify_request", "getpeercert">>
         IN IF got.raises THEN ExceptClause(s, addr, got.exc, ev1)
            ELSE IF ~got.cert.present
            THEN ExceptClause(s, addr, NoCertificateException, ev1)
            ELSE LET r == verify_peer(got.cert)
                     ev2 == ev1 \o <<"verify_peer">>
                 IN IF r.raises THEN ExceptClause(s, addr, r.exc, ev2)
                    ELSE IF ~r.allow THEN RejectPeer(r.reason, ev2)
                    ELSE ReturnTrue(ev2)

Init ==
    /\ verify_fields \in ServerPolicies
    /\ cert_reqs \in CertReqs
    /\ do_handshake_on_connect \in BOOLEAN
    /\ ssl_checks_handshake \in BOOLEAN
    /\ loop = "serving"
    /\ accepted = 0
    /\ conns = [c \in ConnIds |-> NoConn]
    /\ v_cert = NoCert
    /\ v_result = NotCalled
    /\ v_again = NotCalled
    /\ InterceptorIdle

\* variant: the failed handshake is swallowed and the socket returned
WrapFailedReturned(s, collected) ==
    [s EXCEPT !.st = "accepted", !.events = <<"accept", "handshake_failed">>]

\* ssl.wrap_socket raised: get_request is left by the exception, the accept
\* loop drops the connection
WrapFailed(s, collected) ==
    [s EXCEPT !.st = "discarded", !.sock_open = ~collected,
              !.events = <<"accept", "handshake_failed">>]

\* the accept loop is between two requests
LoopIdle == loop = "serving" /\ \A c \in ConnIds : conns[c].st /= "accepted"

\* get_request: accept, then ssl.wrap_socket. A failed handshake raises out
\* of get_request; nothing in it closes the accepted socket, which is left
\* to the garbage collector.
GetRequest ==
    /\ LoopIdle
    /\ accepted < MaxConn
    /\ accepted' = accepted + 1
    /\ \E peer_cert \in PeerCerts, tls_ok \in BOOLEAN, collected \in BOOLEAN :
         LET c == accepted + 1
             s == [NoConn EXCEPT !.peer_cert = peer_cert, !.tls_ok = tls_ok,
                                 !.sock_open = TRUE]
         IN conns' = [conns EXCEPT ![c] =
              IF ~do_handshake_on_connect
              THEN [s EXCEPT !.st = "accepted", !.events = <<"accept">>]
              ELSE IF HandshakeSucceeds(s)
              THEN [s EXCEPT !.st = "accepted", !.handshake_done = TRUE,
                             !.events = <<"accept", "handshake">>]
              ELSE WrapFailed(s, collected)]
    /\ UNCHANGED <<config, loop, verifier_vars, intercept_vars>>

\* variant: a rejection leaves the server without its policy
VerifyRequestDropsPolicy(c) ==
    /\ loop = "serving"
    /\ conns[c].st = "accepted"
    /\ LET out == verify_request(conns[c], from_addr(c))
       IN /\ conns' = [conns EXCEPT
                 ![c].st = CASE out.ret = "True" -> "dispatched"
                             [] out.ret = "False" -> "rejected"
                             [] OTHER -> "raised",
                 ![c].sock_open = IF out.close THEN FALSE ELSE @,
                 ![c].events = @ \o out.events,
                 ![c].log = @ \o out.log]
          /\ loop' = IF out.ret = "raise" THEN "crashed" ELSE loop
          /\ verify_fields' = IF out.ret = "False"
                              THEN [none |-> TRUE, items |-> <<>>] ELSE verify_fields
    /\ UNCHANGED <<cert_reqs, do_handshake_on_connect, ssl_checks_handshake,
                   accepted, verifier_vars, intercept_vars>>

\* the accept loop calls verify_request on what get_request returned and
\* dispatches the request only when it returned True
VerifyRequest(c) ==
    /\ loop = "serving"
    /\ conns[c].st = "accepted"
    /\ LET out == verify_request(conns[c], from_addr(c))
       IN /\ conns' = [conns EXCEPT
                 ![c].st = CASE out.ret = "True" -> "dispatched"
                             [] out.ret = "False" -> "rejected"
                             [] OTHER -> "raised",
                 ![c].sock_open = IF out.close THEN FALSE ELSE @,
                 ![c].events = @ \o out.events,
                 ![c].log = @ \o out.log]
          /\ loop' = IF out.ret = "raise" THEN "crashed" ELSE loop
    /\ UNCHANGED <<config, accepted, verifier_vars, intercept_vars>>

\* RequestHandler.setup's rfile: the first read of a socket wrapped without
\* a handshake drives the handshake
FirstRead(c) ==
    /\ conns[c].st = "dispatched"
    /\ ~conns[c].handshake_done
    /\ conns' = [conns EXCEPT ![c] =
         IF HandshakeSucceeds(@)
         THEN [@ EXCEPT !.handshake_done = TRUE, !.events = @ \o <<"handshake">>]
         ELSE [@ EXCEPT !.st = "failed", !.sock_open = FALSE,
                        !.events = @ \o <<"handshake_failed", "close">>]]
    /\ UNCHANGED <<config, loop, accepted, verifier_vars, intercept_vars>>

\* the request is read and served, then the socket is shut down
ReadPayload(c) ==
    /\ conns[c].st = "dispatched"
    /\ conns[c].handshake_done
    /\ conns' = [conns EXCEPT ![c].st = "served", ![c].sock_open = FALSE,
                              ![c].events = @ \o <<"read", "close">>]
    /\ UNCHANGED <<config, loop, accepted, verifier_vars, intercept_vars>>

Next ==
    \/ GetRequest
    \/ \E c \in ConnIds : VerifyRequest(c)
    \/ \E c \in ConnIds : FirstRead(c)
    \/ \E c \in ConnIds : ReadPayload(c)

Spec == Init /\ [][Next]_vars


(***************************************************************************)
(* MethodSecurityInterceptor: lookupAttributes, beforeInvocation, invoke   *)
(*                                                                         *)
(* A full method name "module.Class.method" is the sequence of its three   *)
(* parts. A rule is a literal pattern, optionally ending in "$":           *)
(* re.compile(rule).match(method) anchors at the start of the name only,   *)
(* so a pattern matches every name it is a prefix of.                      *)
(***************************************************************************)
MaxRules == 2

Methods == {<<"svc", "Bank", "deposit">>, <<"svc", "Bank", "balance">>,
            <<"svc", "Audit", "log">>}

Rules == {[pattern |-> <<>>, anchored |-> FALSE],
          [pattern |-> <<"svc", "Bank">>, anchored |-> FALSE],
          [pattern |-> <<"svc", "Bank">>, anchored |-> TRUE],
          [pattern |-> <<"svc", "Bank", "deposit">>, anchored |-> TRUE]}

ConfigAttributes == {<<>>, <<"ROLE_USER">>}

RuleEntries == [rule : Rules, attr : ConfigAttributes]

\* __setattr__ wraps every value that is not None in a MethodDefinitionMap
Sources == {UnsetSource}
           \cup {[set |-> TRUE, rules |-> r] : r \in SeqsUpTo(RuleEntries, MaxRules)}

Authentications == [principal : {"alice"}, authenticated : BOOLEAN,
                    from_manager : {FALSE}]
Contexts == {None} \cup {Some(a) : a \in Authentications}

Envs == [authenticate : {"ok", "raise"}, concat_ok : BOOLEAN,
         decide : {"ok", "raise"}, proceed : {"ok", "raise"}, value : {"v"}]

IsPrefix(p, m) == Len(p) <= Len(m) /\ SubSeq(m, 1, Len(p)) = p

\* re.compile(rule).match(method)
Match(rule, method) ==
    IsPrefix(rule.pattern, method) /\ (rule.anchored => Len(rule.pattern) = Len(method))

\* variant: the last matching rule wins
RECURSIVE LookupLast(_, _, _)
LookupLast(rules, method, i) ==
    IF i > Len(rules) THEN [attr |-> None, compiled |-> Len(rules)]
    ELSE LET rest == LookupLast(rules, method, i + 1)
         IN IF rest.attr = None /\ Match(rules[i].rule, method)
            THEN [attr |-> Some(rules[i].attr), compiled |-> Len(rules)]
            ELSE rest

\* the for loop of lookupAttributes from rule i on; compiled counts the
\* rules handed to re.compile
RECURSIVE Lookup(_, _, _)
Lookup(rules, method, i) ==
    IF i > Len(rules) THEN [attr |-> None, compiled |-> Len(rules)]
    ELSE IF Match(rules[i].rule, method)
    THEN [attr |-> Some(rules[i].attr), compiled |-> i]
    ELSE Lookup(rules, method, i + 1)

\* MethodDefinitionMap.lookupAttributes
lookupAttributes(rules, method) ==
    IF rules = <<>> THEN [attr |-> None, compiled |-> 0]
    ELSE Lookup(rules, method, 1)

\* "if attr": None and an empty attribute list are false
Secured(attr) == attr /= None /\ attr[1] /= <<>>

\* authenticationManager.authenticate(authentication), when it returns
Authenticated(a) == [a EXCEPT !.authenticated = TRUE, !.from_manager = TRUE]

BeforeRaise(exc, context, events) ==
    [raises |-> TRUE, exc |-> exc, token |-> None, context |-> context,
     events |-> events \o <<"raise_before">>]

BeforeReturn(token, context, events) ==
    [raises |-> FALSE, exc |-> "", token |-> token, context |-> context,
     events |-> events]

\* variant: a refusal of the AccessDecisionManager is ignored
DecideIgnored(env, authenticated, attr, method, context, events) ==
    BeforeReturn(Some([authentication |-> authenticated, attr |-> attr,
                       secureObject |-> method]),
                 context, events \o <<"decide">>)

\* self.accessDecisionManager.decide(...), then the token is returned
Decide(env, authenticated, attr, method, context, events) ==
    IF env.decide = "raise"
    THEN BeforeRaise("AccessDeniedException", context, events \o <<"decide">>)
    ELSE BeforeReturn(Some([authentication |-> authenticated, attr |-> attr,
                            secureObject |-> method]),
                      context, events \o <<"decide">>)

\* AbstractSecurityInterceptor.beforeInvocation
beforeInvocation(context, source, method, env) ==
    IF ~source.set
    THEN BeforeRaise("AttributeError", context, <<>>)
    ELSE
    LET found == lookupAttributes(source.rules, method)
        ev == <<"getAttributes">>
    IN IF ~Secured(found.attr) THEN BeforeReturn(None, context, ev)
       ELSE IF context = None
       THEN BeforeRaise("AuthenticationCredentialsNotFoundException", context, ev)
       ELSE IF ~context[1].authenticated
       THEN IF env.authenticate = "raise"
            THEN BeforeRaise("AuthenticationException", context, ev \o <<"authenticate">>)
            ELSE IF ~env.concat_ok
            THEN BeforeRaise("TypeError", context, ev \o <<"authenticate">>)
            ELSE Decide(env, Authenticated(context[1]), found.attr[1], method,
                        Some(Authenticated(context[1])),
                        ev \o <<"authenticate", "set_context">>)
       ELSE Decide(env, context[1], found.attr[1], method, context, ev)

\* AbstractSecurityInterceptor.afterInvocation
afterInvocation(token, results) == results

\* variant: without the finally clause
ProceedRaisedNoFinally(inv, token) ==
    [inv EXCEPT !.events = @ \o <<"proceed", "raise">>,
                !.raised = TRUE, !.exc = "TargetException"]

\* invocation.proceed() raised: the finally clause runs, the exception goes on
ProceedRaised(inv, token) ==
    [inv EXCEPT !.events = @ \o <<"proceed", "afterInvocation", "raise">>,
                !.raised = TRUE, !.exc = "TargetException",
                !.after_token = Some(token), !.after_results = Some(None)]

\* invocation.proceed() returned value
ProceedReturned(inv, token, value) ==
    [inv EXCEPT !.events = @ \o <<"proceed", "afterInvocation", "return">>,
                !.results = afterInvocation(token, Some(value)),
                !.after_token = Some(token), !.after_results = Some(Some(value))]

\* MethodSecurityInterceptor.invoke: the record of the call
invoke(context, source, method, env) ==
    LET b == beforeInvocation(context, source, method, env)
        found == IF source.set THEN lookupAttributes(source.rules, method)
                 ELSE [attr |-> None, compiled |-> 0]
        inv == [NoInvocation EXCEPT !.method = method, !.env = env,
                                    !.entry_context = context,
                                    !.attr = found.attr,
                                    !.compiled = found.compiled,
                                    !.events = <<"invoke">> \o b.events,
                                    !.token = b.token]
    IN IF b.raises
       THEN [inv EXCEPT !.raised = TRUE, !.exc = b.exc]
       ELSE IF env.proceed = "raise" THEN ProceedRaised(inv, b.token)
       ELSE ProceedReturned(inv, b.token, env.value)

InterceptInit ==
    /\ verify_fields = [none |-> TRUE, items |-> <<>>]
    /\ cert_reqs = "CERT_OPTIONAL"
    /\ do_handshake_on_connect = TRUE
    /\ ssl_checks_handshake = FALSE
    /\ loop = "serving"
    /\ accepted = 0
    /\ conns = [c \in ConnIds |-> NoConn]
    /\ v_cert = NoCert
    /\ v_result = NotCalled
    /\ v_again = NotCalled
    /\ i_source \in Sources
    /\ i_context \in Contexts
    /\ i_last = NoInvocation

\* one call of invoke; the collaborators' answers are env
Invoke ==
    \E method \in Methods, env \in Envs :
        /\ i_last' = invoke(i_context, i_source, method, env)
        /\ i_context' = beforeInvocation(i_context, i_source, method, env).context
        /\ UNCHANGED <<config, server_vars, verifier_vars, i_source>>

InterceptNext == Invoke

InterceptSpec == InterceptInit /\ [][InterceptNext]_vars

(***************************************************************************)
(* History predicates                                                      *)
(***************************************************************************)
Happened(c, e) == \E i \in 1..Len(conns[c].events) : conns[c].events[i] = e

\* every occurrence of event e on connection c has an earlier event d
Precedes(c, d, e) ==
    \A i \in 1..Len(conns[c].events) :
        conns[c].events[i] = e => \E j \in 1..(i - 1) : conns[c].events[j] = d

\* what getpeercert() gives on a handshaken socket is a certificate
CertPresented(c) == cert_reqs /= "CERT_NONE" /\ conns[c].peer_cert.present

Accepts(r) == ~r.raises /\ r.allow

\* a verification policy is configured: a mapping with at least one field
PolicyConfigured == ~verify_fields.none /\ Len(verify_fields.items) > 0

(***************************************************************************)
(* C1: verify_request returns True, and the connection is dispatched and   *)
(* read, only if no policy is configured or the peer presented a           *)
(* certificate that verify_peer accepted; a connection whose verification  *)
(* was rejected or raised is never dispatched.                             *)
(***************************************************************************)
C1_DispatchOnlyIfVerified ==
    \A c \in ConnIds :
        /\ Happened(c, "return_true") =>
              \/ ~PolicyConfigured
              \/ CertPresented(c) /\ Accepts(verify_peer(conns[c].peer_cert))
        /\ (conns[c].st \in {"dispatched", "served", "failed"} \/ Happened(c, "read"))
              => Happened(c, "return_true")
        /\ conns[c].st \in {"rejected", "raised"} =>
              ~Happened(c, "return_true") /\ ~Happened(c, "read")

C1_Witness ==
    \E c \in ConnIds :
        /\ PolicyConfigured
        /\ conns[c].st = "served"
        /\ Happened(c, "verify_peer")

(***************************************************************************)
(* C2: an exception raised while retrieving the certificate or evaluating  *)
(* the policy is handled inside verify_request like a rejection: logged,   *)
(* socket closed, False returned; none propagates to the accept loop.      *)
(***************************************************************************)
C2_ExceptionsHandledAsRejection ==
    /\ loop = "serving"
    /\ \A c \in ConnIds :
          Happened(c, "except") =>
              /\ conns[c].st = "rejected"
              /\ conns[c].log /= <<>>
              /\ ~conns[c].sock_open

(***************************************************************************)
(* C3: on every connection the certificate verification step happens       *)
(* after that connection's handshake has completed and before any request  *)
(* payload is read from it.                                                *)
(***************************************************************************)
C3_HandshakeThenVerifyThenRead ==
    \A c \in ConnIds :
        /\ Precedes(c, "handshake", "getpeercert")
        /\ Precedes(c, "handshake", "verify_peer")
        /\ Precedes(c, "verify_request", "read")
        /\ Precedes(c, "handshake", "read")

(***************************************************************************)
(* C4: every connection that fails the handshake in get_request or fails   *)
(* verification in verify_request has its socket closed before the accept  *)
(* loop goes on; rejected attempts leave no open socket behind.            *)
(***************************************************************************)
C4_FailedConnectionsClosed ==
    \A c \in ConnIds :
        conns[c].st \in {"discarded", "rejected", "raised"} => ~conns[c].sock_open

(***************************************************************************)
(* C5: with a non-empty policy, a handshaken peer that presented no        *)
(* certificate is rejected: verify_request logs that the peer did not send *)
(* a certificate, closes the socket and returns False, and verify_peer is  *)
(* not called.                                                             *)
(***************************************************************************)
C5_NoCertificateRejected ==
    \A c \in ConnIds :
        (/\ PolicyConfigured
         /\ Happened(c, "verify_request")
         /\ Precedes(c, "handshake", "verify_request")
         /\ ~CertPresented(c))
        => /\ conns[c].st = "rejected"
           /\ Happened(c, "return_false")
           /\ ~conns[c].sock_open
           /\ ~Happened(c, "verify_peer")
           /\ conns[c].log = <<ErrorLine(NoCertificateException, NoCert, from_addr(c))>>

C5_Witness ==
    \E c \in ConnIds :
        /\ PolicyConfigured
        /\ cert_reqs = "CERT_OPTIONAL"
        /\ do_handshake_on_connect
        /\ ~conns[c].peer_cert.present
        /\ conns[c].st = "rejected"

(***************************************************************************)
(* C6: with no policy (None or an empty mapping) verify_request returns    *)
(* True for every connection whatever the peer presented, without          *)
(* retrieving the peer certificate, and leaves the socket open.            *)
(***************************************************************************)
C6_EmptyPolicyAcceptsAll ==
    \A c \in ConnIds :
        (~PolicyConfigured /\ Happened(c, "verify_request"))
        => /\ Happened(c, "return_true")
           /\ ~Happened(c, "getpeercert")
           /\ ~Happened(c, "verify_peer")
           /\ conns[c].log = <<>>
           /\ conns[c].st \in {"dispatched", "served", "failed"}
           /\ conns[c].st = "dispatched" => conns[c].sock_open

C6_Witness ==
    /\ ~verify_fields.none
    /\ verify_fields.items = <<>>
    /\ cert_reqs = "CERT_OPTIONAL"
    /\ \E c, d \in ConnIds :
          /\ conns[c].st = "dispatched" /\ conns[c].handshake_done
          /\ ~conns[c].peer_cert.present
          /\ conns[d].st = "dispatched" /\ conns[d].handshake_done
          /\ conns[d].peer_cert.present

(***************************************************************************)
(* C10: every rejected connection leaves a logged line that includes the   *)
(* peer address: a handshake failure, a verification rejection and an      *)
(* unexpected verification exception alike.                                *)
(***************************************************************************)
C10_RejectionsLoggedWithPeerAddress ==
    \A c \in ConnIds :
        conns[c].st \in {"discarded", "rejected", "raised"} =>
            \E i \in 1..Len(conns[c].log) :
                conns[c].log[i].from_addr = Some(from_addr(c))

(***************************************************************************)
(* Verifier claims: the inputs of the call recorded in v_result            *)
(***************************************************************************)
\* verify_peer was called on a certificate whose subject mapping F exists
VerifiedSubject ==
    /\ v_result.called
    /\ v_cert.hasSubject
    /\ v_cert.subject /= <<>>
    /\ ~SubjectRaises(v_cert.subject)

F == SubjectDict(v_cert.subject)
P == verify_fields.items

FieldMatches(i) == P[i][1] \in DOMAIN F /\ F[P[i][1]] = P[i][2]

\* policy field i is the first one, in iteration order, that verify_peer
\* does not pass: every earlier field is present, non-empty and equal
FirstExamined(i) ==
    /\ i \in 1..Len(P)
    /\ \A j \in 1..(i - 1) : FieldMatches(j) /\ P[j][2] /= ""

(***************************************************************************)
(* C7: for a non-empty policy P and a subject mapping F, verify_peer       *)
(* returns (True, None) if and only if every field named in P is present   *)
(* in F with a value equal to the expected one.                            *)
(***************************************************************************)
C7_AcceptsIffAllFieldsMatch ==
    (VerifiedSubject /\ P /= <<>>) =>
        (v_result.result = Return(TRUE, NoReason)
            <=> \A i \in 1..Len(P) : FieldMatches(i))

(***************************************************************************)
(* C8: when a policy field is present in the subject with another value,   *)
(* verify_peer rejects with a reason naming the field, the expected value  *)
(* and the received value of that field.                                   *)
(***************************************************************************)
C8_MismatchReasonNamesReceivedValue ==
    VerifiedSubject =>
        \A i \in 1..Len(P) :
            (/\ FirstExamined(i)
             /\ P[i][1] \in DOMAIN F
             /\ F[P[i][1]] /= ""
             /\ F[P[i][1]] /= P[i][2])
            => /\ ~v_result.result.raises
               /\ ~v_result.result.allow
               /\ v_result.result.reason.args =
                     <<StrArg(P[i][1]), StrArg(P[i][2]), StrArg(F[P[i][1]])>>

(***************************************************************************)
(* C9: when a policy field is absent from the subject mapping, verify_peer *)
(* rejects with a reason naming the missing field and the full set of      *)
(* subject fields received.                                                *)
(***************************************************************************)
C9_MissingReasonNamesFieldAndSubject ==
    VerifiedSubject =>
        /\ (\E i \in 1..Len(P) : P[i][1] \notin DOMAIN F) => ~Accepts(v_result.result)
        /\ \A i \in 1..Len(P) :
              (FirstExamined(i) /\ P[i][1] \notin DOMAIN F)
              => /\ ~v_result.result.raises
                 /\ ~v_result.result.allow
                 /\ v_result.result.reason.fmt =
                       "Peer didn't send the '%s' field, subject fields received '%s'"
                 /\ v_result.result.reason.args = <<StrArg(P[i][1]), MapArg(F)>>

C9_Witness ==
    /\ VerifiedSubject
    /\ Len(P) = 2
    /\ FirstExamined(2)
    /\ P[2][1] \notin DOMAIN F
    /\ ~v_result.result.allow
    /\ v_result.result.reason.args[1] = StrArg(P[2][1])

(***************************************************************************)
(* C11: a TLS handshake failure is terminal for its connection: when the   *)
(* wrap in get_request fails the connection is discarded, verify_request   *)
(* and verify_peer are never invoked for it, and it is never verified or   *)
(* dispatched.                                                             *)
(***************************************************************************)
C11_HandshakeFailureTerminal ==
    \A c \in ConnIds :
        /\ \A i \in 1..Len(conns[c].events) :
              conns[c].events[i] = "handshake_failed" =>
                  /\ conns[c].st \in {"discarded", "failed"}
                  /\ \A j \in (i + 1)..Len(conns[c].events) :
                        conns[c].events[j] = "close"
        /\ conns[c].st = "discarded" =>
              /\ conns[c].events = <<"accept", "handshake_failed">>
              /\ conns[c].log = <<>>
              /\ ~conns[c].handshake_done

C11_Witness ==
    \E c, d \in ConnIds :
        /\ c < d
        /\ do_handshake_on_connect
        /\ conns[c].st = "discarded"
        /\ conns[d].st = "served"

(***************************************************************************)
(* C12: verification examines the policy fields in the policy's iteration  *)
(* order and stops at the first failing one: the rejection reason concerns *)
(* the first field in that order that is missing or mismatched.            *)
(***************************************************************************)
\* policy field i is missing from the subject mapping or has another value
MissingOrMismatched(i) == P[i][1] \notin DOMAIN F \/ F[P[i][1]] /= P[i][2]

FirstFailing(i) ==
    /\ i \in 1..Len(P)
    /\ MissingOrMismatched(i)
    /\ \A j \in 1..(i - 1) : ~MissingOrMismatched(j)

C12_ReasonConcernsFirstFailingField ==
    VerifiedSubject =>
        \A i \in 1..Len(P) :
            FirstFailing(i)
            => /\ ~v_result.result.raises
               /\ ~v_result.result.allow
               /\ v_result.result.reason.args[1] = StrArg(P[i][1])
               /\ v_result.result = CheckFields(SubSeq(P, 1, i), F, 1)

Verdict(c) ==
    CASE Happened(c, "return_true") -> "True"
      [] Happened(c, "return_false") -> "False"
      [] Happened(c, "raise") -> "raise"
      [] conns[c].st = "discarded" -> "discarded"
      [] OTHER -> "pending"

SamePeer(c, d) ==
    /\ conns[c].peer_cert = conns[d].peer_cert
    /\ conns[c].tls_ok = conns[d].tls_ok

C14_ConfigurationReadOnly ==
    /\ [][UNCHANGED config]_vars
    /\ [](\A c, d \in ConnIds :
            (SamePeer(c, d) /\ Verdict(c) /= "pending" /\ Verdict(d) /= "pending")
            => Verdict(c) = Verdict(d))

C14_Witness ==
    \E c, d \in ConnIds :
        /\ c < d
        /\ PolicyConfigured
        /\ SamePeer(c, d)
        /\ conns[c].peer_cert.present
        /\ conns[c].st = "rejected"
        /\ conns[d].st = "rejected"
        /\ Happened(d, "verify_peer")

(***************************************************************************)
(* Interceptor claims: the call recorded in i_last                         *)
(***************************************************************************)
Invoked == i_last.events /= <<>>

IHappened(e) == \E i \in 1..Len(i_last.events) : i_last.events[i] = e

ICount(e) == Cardinality({i \in 1..Len(i_last.events) : i_last.events[i] = e})

IPrecedes(d, e) ==
    \A i \in 1..Len(i_last.events) :
        i_last.events[i] = e => \E j \in 1..(i - 1) : i_last.events[j] = d

IRules == i_source.rules

\* rule i is the first registered rule that matches the method called
FirstMatch(i) ==
    /\ i \in 1..Len(IRules)
    /\ Match(IRules[i].rule, i_last.method)
    /\ \A j \in 1..(i - 1) : ~Match(IRules[j].rule, i_last.method)

\* the definition source returns config attributes for the call
SecuredCall ==
    /\ Invoked
    /\ i_source.set
    /\ \E i \in 1..Len(IRules) : FirstMatch(i) /\ IRules[i].attr /= <<>>

EntryAuthenticated ==
    i_last.entry_context /= None /\ i_last.entry_context[1].authenticated

(***************************************************************************)
(* C15: for a secured invocation, invoke calls invocation.proceed() only   *)
(* after an Authentication was found in the context and decide returned;   *)
(* with no Authentication, or when authentication or the access decision   *)
(* raises, the target is not executed and afterInvocation is not called.   *)
(***************************************************************************)
C15_ProceedOnlyIfAuthorized ==
    SecuredCall =>
        /\ IHappened("proceed") =>
              /\ i_last.entry_context /= None
              /\ ICount("decide") = 1
              /\ IPrecedes("decide", "proceed")
              /\ i_last.env.decide = "ok"
              /\ ~EntryAuthenticated =>
                    IPrecedes("authenticate", "decide") /\ i_last.env.authenticate = "ok"
        /\ (\/ i_last.entry_context = None
            \/ ~EntryAuthenticated /\ i_last.env.authenticate = "raise"
            \/ i_last.env.decide = "raise")
           => /\ ~IHappened("proceed")
              /\ ~IHappened("afterInvocation")
              /\ i_last.raised
              /\ i_last.results = None

C15_Witness ==
    /\ SecuredCall
    /\ ~EntryAuthenticated
    /\ IHappened("authenticate")
    /\ IHappened("proceed")

(***************************************************************************)
(* C16: for a secured invocation whose Authentication is not authenticated *)
(* beforeInvocation authenticates it, puts the returned value in the       *)
(* SecurityContextHolder, authorizes that value and returns a token that   *)
(* carries it; when it is authenticated the AuthenticationManager is not   *)
(* called and the context is left unchanged.                               *)
(***************************************************************************)
C16_ReauthenticateAndReplace ==
    (SecuredCall /\ i_last.entry_context /= None) =>
        IF EntryAuthenticated
        THEN /\ ~IHappened("authenticate")
             /\ i_context = i_last.entry_context
        ELSE i_last.env.authenticate = "ok" =>
             /\ IHappened("authenticate")
             /\ i_context = Some(Authenticated(i_last.entry_context[1]))
             /\ IPrecedes("set_context", "decide")
             /\ IHappened("decide")
             /\ i_last.env.decide = "ok" =>
                   /\ i_last.token /= None
                   /\ i_last.token[1].authentication = Authenticated(i_last.entry_context[1])

(***************************************************************************)
(* C17: lookupAttributes returns the attributes of the first registered    *)
(* rule whose expression matches the method name, without evaluating later *)
(* rules, and None when no rule matches or none is registered; the         *)
(* invocation is then public: beforeInvocation returns None without        *)
(* authentication, authorization or a change of the security context.      *)
(***************************************************************************)
C17_FirstMatchingRule ==
    (Invoked /\ i_source.set) =>
        /\ \A i \in 1..Len(IRules) :
              FirstMatch(i) => /\ i_last.attr = Some(IRules[i].attr)
                               /\ i_last.compiled = i
        /\ (\A i \in 1..Len(IRules) : ~Match(IRules[i].rule, i_last.method)) =>
              /\ i_last.attr = None
              /\ i_last.token = None
              /\ ~IHappened("authenticate")
              /\ ~IHappened("decide")
              /\ ~IHappened("raise_before")
              /\ i_context = i_last.entry_context
              /\ IHappened("proceed")

C17_Witness ==
    /\ Invoked
    /\ i_source.set
    /\ Len(IRules) = 2
    /\ Match(IRules[1].rule, i_last.method)
    /\ Match(IRules[2].rule, i_last.method)
    /\ IRules[1].attr /= IRules[2].attr
    /\ i_last.attr = Some(IRules[1].attr)

(***************************************************************************)
(* C18: once invoke has reached invocation.proceed(), afterInvocation is   *)
(* called exactly once afterwards with the token of beforeInvocation, also *)
(* when proceed() raises; on a normal return invoke returns the result of  *)
(* proceed(), and an exception of proceed() reaches the caller.            *)
(***************************************************************************)
C18_AfterInvocationAlways ==
    (Invoked /\ IHappened("proceed")) =>
        /\ ICount("proceed") = 1
        /\ ICount("afterInvocation") = 1
        /\ IPrecedes("proceed", "afterInvocation")
        /\ i_last.after_token = Some(i_last.token)
        /\ i_last.env.proceed = "ok" =>
              /\ ~i_last.raised
              /\ i_last.results = Some(i_last.env.value)
              /\ i_last.after_results = Some(Some(i_last.env.value))
        /\ i_last.env.proceed = "raise" =>
              /\ i_last.raised
              /\ i_last.exc = "TargetException"
              /\ i_last.after_results = Some(None)

C18_Witness ==
    /\ SecuredCall
    /\ i_last.env.proceed = "raise"
    /\ IHappened("afterInvocation")
    /\ i_last.token /= None
    /\ i_last.raised

(***************************************************************************)
(* C19: a subject field that is present with an empty value is rejected    *)
(* with the reason of a field that was not sent, and a policy entry whose  *)
(* expected value is the empty string is satisfied by no certificate.      *)
(***************************************************************************)
C19_EmptyValueIsMissing ==
    /\ VerifiedSubject =>
          \A i \in 1..Len(P) :
              (FirstExamined(i) /\ P[i][1] \in DOMAIN F /\ F[P[i][1]] = "")
              => v_result.result =
                    Return(FALSE,
                           [fmt |-> "Peer didn't send the '%s' field, subject fields received '%s'",
                            args |-> <<StrArg(P[i][1]), MapArg(F)>>])
    /\ (v_result.called /\ \E i \in 1..Len(P) : P[i][2] = "")
          => ~Accepts(v_result.result)

C19_Witness ==
    /\ VerifiedSubject
    /\ P = << <<"O", "">> >>
    /\ "O" \in DOMAIN F
    /\ F["O"] = ""
    /\ ~v_result.result.allow
    /\ v_result.result.reason.args = <<StrArg("O"), MapArg(F)>>

(***************************************************************************)
(* C20: the subject mapping holds the first attribute of every RDN, and    *)
(* the last RDN naming a field gives its value: verify_peer accepts or     *)
(* rejects on that last value alone, so the expected value in an earlier   *)
(* RDN followed by a different one is rejected and the reverse accepted.   *)
(***************************************************************************)
RDNSeq == v_cert.subject

Occurrences(f) == {i \in 1..Len(RDNSeq) : RDNSeq[i][1][1] = f}

LastOccurrence(f) == CHOOSE i \in Occurrences(f) : \A j \in Occurrences(f) : j <= i

LastValues ==
    [f \in {RDNSeq[i][1][1] : i \in 1..Len(RDNSeq)} |-> RDNSeq[LastOccurrence(f)][1][2]]

C20_LastOccurrenceWins ==
    VerifiedSubject =>
        /\ Accepts(v_result.result) <=>
              \A i \in 1..Len(P) :
                  /\ Occurrences(P[i][1]) /= {}
                  /\ RDNSeq[LastOccurrence(P[i][1])][1][2] = P[i][2]
                  /\ P[i][2] /= ""
        /\ ~v_result.result.raises
        /\ ~v_result.result.allow =>
              v_result.result.reason.args[Len(v_result.result.reason.args)]
                  = MapArg(LastValues)

C20_Witness ==
    /\ VerifiedSubject
    /\ RDNSeq = << << <<"O", "Acme">> >>, << <<"O", "Other">> >> >>
    /\ P = << <<"O", "Acme">> >>
    /\ ~v_result.result.allow
    /\ v_result.result.reason.args[3] = MapArg(LastValues)

====
